---- MODULE Spec2Model ----
(***************************************************************************)
(* State-machine model of the BTRC QoS dashboard front end:                *)
(*   - useDrillData   (hooks/useDrillData.js): drill state, the fetch      *)
(*     effect with its `cancelled` flag, and the four drill actions;       *)
(*   - useMetabaseCard (hooks/useMetabaseCard.js): load(), the             *)
(*     sessionStorage cache, toKey, and useFilteredCard's mergedParams;    *)
(*   - FilterProvider (contexts/FilterContext.jsx) with the FilterBar that *)
(*     drives it, and the user and role AuthProvider hands to it.          *)
(*                                                                         *)
(* React semantics used throughout: an event handler's setState calls are  *)
(* batched, the component re-renders, and an effect whose dependency list  *)
(* changed runs its cleanup and then its body before the next event is     *)
(* handled.  One action of the model is therefore handler + render +       *)
(* effect.  The continuation after an `await` runs as one step when the    *)
(* awaited promise settles.                                                *)
(***************************************************************************)
EXTENDS Integers, Sequences, FiniteSets, TLC

\* ---------------------------------------------------------------- bounds
\* Effect runs of useDrillData that may be in flight together (current + stale).
MaxRuns == 2

\* ------------------------------------------------------------ vocabulary
Null   == "null"        \* JS null
Absent == "<absent>"    \* a key an object does not have
ErrMsg == "Failed to load map data"

Divs  == {"Dhaka", "Khulna"}          \* GeoJSON NAME_1 values
Dists == {"Jessore"}                  \* GeoJSON shapeName values

REG_R2_DIV_VIOLATIONS  == "REG_R2_DIV_VIOLATIONS"
REG_R2_DIST_VIOLATIONS == "REG_R2_DIST_VIOLATIONS"
REG_R2_POP_MARKERS     == "REG_R2_POP_MARKERS"
REG_R2_ISP_BY_AREA     == "REG_R2_ISP_BY_AREA"

\* DB name_en -> GeoJSON property, as a set of <<db, geo>> pairs.
DIST_DB_TO_GEO ==
  { <<"Bogura", "Bogra">>, <<"Brahmanbaria", "Brahamanbaria">>,
    <<"Chapainawabganj", "Nawabganj">>, <<"Chattogram", "Chittagong">>,
    <<"Coxsbazar", "Cox's Bazar">>, <<"Jashore", "Jessore">>,
    <<"Jhalakathi", "Jhalokati">>, <<"Moulvibazar", "Maulvibazar">>,
    <<"Netrokona", "Netrakona">> }

toGeoDiv(n) == n
toDbDiv(n)  == n
toGeoDist(n) ==
  IF \E e \in DIST_DB_TO_GEO : e[1] = n
  THEN (CHOOSE e \in DIST_DB_TO_GEO : e[1] = n)[2] ELSE n
\* Variant: no reverse lookup.
toDbDistPassThrough(n) == n

toDbDist(n) ==
  IF \E e \in DIST_DB_TO_GEO : e[2] = n
  THEN (CHOOSE e \in DIST_DB_TO_GEO : e[2] = n)[1] ELSE n

\* The global filter's activeParams objects the model draws from.  A field
\* that the object does not carry is Absent (the code only ever stores
\* non-empty values under a key, so "no key" and Absent coincide).
FilterChoices ==
  { [isp |-> Absent, start_date |-> Absent, end_date |-> Absent,
     division |-> Absent, district |-> Absent],
    [isp |-> "ISP1", start_date |-> "2024-01-01", end_date |-> "2024-01-31",
     division |-> "Khulna", district |-> "Bagerhat"] }

VARIABLES
  \* ---- useDrillData
  activeParams,   \* useFilter().activeParams
  level, selectedDiv, selectedDist,
  divisionData, districtData, popMarkers, ispData,
  loading, error,
  runs,           \* effect runs whose fetches are still in flight, oldest first
  \* ---- useMetabaseCard
  mcMounted,      \* the component using the hook is mounted
  mcCardId, mcParams,        \* the hook's arguments at the last render
  rows, columns, mcLoading, mcError,
  cache,          \* sessionStorage: the mb_cache_v2_ entries
  now,            \* Date.now()
  loads,          \* getCardData calls still in flight, oldest first
  refreshed,      \* history kept by SpecCardHist: per key, the request time of
                  \* the result the last successful refetch() stored, until
                  \* the key is next loaded
  refetched,      \* history kept by SpecCardHist: per key, the time of the
                  \* last refetch() call
  \* ---- AuthProvider
  user, role,
  resolving,      \* the user whose permission-groups fetch is in flight
  \* ---- FilterProvider
  fpMounted,      \* the provider's mount effects have run
  searchParams,   \* the URL query string
  division, district, isp, preset, startDate, endDate,
  maxDate,
  resolvedDatesMemo, activeParamsMemo,  \* the two useMemo values
  \* ---- district names
  distIn,         \* a district name as a row or a polygon carries it
  distTrail,      \* the conversions applied to it so far, with their results
  \* ---- DrillDownMap colour scale
  mapMax,         \* maxDiv / maxDist
  mapTotals,      \* the totals of two areas of the layer
  mapFills,       \* the fillColor each colour function gives the two areas
  \* ---- R2Tab
  seenLoading     \* `loading` as the auto-drill effect saw it when it last ran

drillVars == <<activeParams, level, selectedDiv, selectedDist, divisionData,
               districtData, popMarkers, ispData, loading, error, runs>>
hookVars == <<mcMounted, mcCardId, mcParams, rows, columns, mcLoading, mcError,
              cache, now, loads>>
histVars == <<refreshed, refetched>>
cardVars == <<hookVars, histVars>>
authVars == <<user, role, resolving>>
selVars == <<searchParams, division, district, isp, preset, startDate, endDate,
             maxDate, resolvedDatesMemo, activeParamsMemo>>
filterVars == <<authVars, fpMounted, selVars>>
calcVars == <<distIn, distTrail, mapMax, mapTotals, mapFills>>
tabVars == <<seenLoading>>
vars == <<drillVars, cardVars, filterVars, calcVars, tabVars>>

\* ------------------------------------------------------- useDrillData
\* filterParams: every truthy key of activeParams, copied in a fixed order.
filterParams(ap) ==
  [isp |-> ap.isp, start_date |-> ap.start_date, end_date |-> ap.end_date,
   division |-> ap.division, district |-> ap.district]

\* Variant: the effect's dependency list without filterKey.
filterKeyOmitted(ap) == << >>

\* filterKey = JSON.stringify(filterParams); the keys are always inserted in
\* the same order, so two keys are equal exactly when the objects are.
filterKey(ap) == filterParams(ap)

\* The rows a card returns for a parameter object (an opaque, non-empty table
\* identified by the request that produced it).
Rows(card, p) == [card |-> card, params |-> p]

\* Variant: the global filter spread after the drill selection, so a filter
\* division wins over the selected one.
RunParamsFilterFirst(lv, dv, ds, fp) ==
  CASE lv = "national" -> [fp EXCEPT !.district = Absent]
    [] lv = "division" ->
         [fp EXCEPT !.division = IF fp.division # Absent THEN fp.division ELSE toDbDiv(dv),
                    !.district = Absent]
    [] OTHER           ->
         [fp EXCEPT !.division = IF fp.division # Absent THEN fp.division ELSE toDbDiv(dv),
                    !.district = IF fp.district # Absent THEN fp.district ELSE toDbDist(ds)]

\* Variant: the division branch without `delete params.district`.
RunParamsKeepDistrict(lv, dv, ds, fp) ==
  CASE lv = "national" -> [fp EXCEPT !.district = Absent]
    [] lv = "division" -> [fp EXCEPT !.division = toDbDiv(dv)]
    [] OTHER           -> [fp EXCEPT !.division = toDbDiv(dv), !.district = toDbDist(ds)]

\* The params object each branch of run() builds.
RunParams(lv, dv, ds, fp) ==
  CASE lv = "national" -> [fp EXCEPT !.district = Absent]
    [] lv = "division" -> [fp EXCEPT !.division = toDbDiv(dv), !.district = Absent]
    [] OTHER           -> [fp EXCEPT !.division = toDbDiv(dv), !.district = toDbDist(ds)]

\* Variant: the district branch fetching the aggregate card as well.
RunCardsAggregateAtDistrict(lv, dv, ds) ==
  CASE lv = "national"                              -> {REG_R2_DIV_VIOLATIONS}
    [] lv \in {"division", "district"} /\ dv # Null /\ (lv = "division" \/ ds # Null) ->
         {REG_R2_DIST_VIOLATIONS, REG_R2_POP_MARKERS, REG_R2_ISP_BY_AREA}
    [] OTHER                                        -> {}

\* The cards each branch of run() fetches.
RunCards(lv, dv, ds) ==
  CASE lv = "national"                              -> {REG_R2_DIV_VIOLATIONS}
    [] lv = "division" /\ dv # Null                 ->
         {REG_R2_DIST_VIOLATIONS, REG_R2_POP_MARKERS, REG_R2_ISP_BY_AREA}
    [] lv = "district" /\ dv # Null /\ ds # Null    ->
         {REG_R2_POP_MARKERS, REG_R2_ISP_BY_AREA}
    [] OTHER                                        -> {}

\* `if (!cancelled)`: a run writes state only while its flag is clear.
\* Variants: the flag never checked; the flag checked the wrong way round.
MayWriteAlways(r) == TRUE
MayWriteInverted(r) == r.cancelled
MayWrite(r) == ~r.cancelled

\* The effect's cleanup: `cancelled = true` on the run the effect started.
CancelAll(rs) == [i \in 1..Len(rs) |-> [rs[i] EXCEPT !.cancelled = TRUE]]

\* A run of the effect: its own `cancelled` flag, the branch it took, the
\* params object it built, the cards it fetches with it, and how many of those
\* fetches have not returned yet (Promise.all only observes that number).
NewRun(lv, dv, ds, ap) ==
  [cancelled |-> FALSE, level |-> lv,
   params |-> RunParams(lv, dv, ds, filterParams(ap)),
   cards |-> RunCards(lv, dv, ds),
   pending |-> Cardinality(RunCards(lv, dv, ds))]

Deps(lv, dv, ds, ap) == <<lv, dv, ds, filterKey(ap)>>

\* Render after an event that leaves the drill state (lv, dv, ds), the global
\* filter ap and loading ld.  When the effect's dependency list changed, the
\* previous run is cancelled and run() starts: setLoading(true),
\* setError(null), and the fetches of the level's branch are issued.  A branch
\* that issues no fetch falls straight through to `finally`.
Render(lv, dv, ds, ap, ld) ==
  IF Deps(lv, dv, ds, ap) = Deps(level, selectedDiv, selectedDist, activeParams)
  THEN /\ loading' = ld
       /\ UNCHANGED <<error, runs>>
  ELSE LET cards == RunCards(lv, dv, ds) IN
       /\ error' = Null
       /\ IF cards = {}
          THEN /\ loading' = FALSE
               /\ runs' = CancelAll(runs)
          ELSE /\ Len(runs) < MaxRuns
               /\ loading' = TRUE
               /\ runs' = Append(CancelAll(runs),
                                 NewRun(lv, dv, ds, ap))

drillToDiv(geoName) ==
  /\ selectedDiv'  = geoName
  /\ selectedDist' = Null
  /\ level'        = "division"
  /\ districtData' = {}
  /\ popMarkers'   = {}
  /\ ispData'      = {}
  /\ Render("division", geoName, Null, activeParams, TRUE)
  /\ UNCHANGED <<activeParams, divisionData>>
  /\ UNCHANGED <<cardVars, filterVars, calcVars>>

drillToDist(geoDistName) ==
  /\ selectedDist' = geoDistName
  /\ level'        = "district"
  /\ popMarkers'   = {}
  /\ ispData'      = {}
  /\ Render("district", selectedDiv, geoDistName, activeParams, TRUE)
  /\ UNCHANGED <<activeParams, selectedDiv, divisionData, districtData>>
  /\ UNCHANGED <<cardVars, filterVars, calcVars>>

\* Variant: the step up to national level leaving the division's tables in
\* place.
drillUpKeepsData ==
  \/ /\ level = "district"
     /\ level' = "division"
     /\ selectedDist' = Null
     /\ Render("division", selectedDiv, Null, activeParams, TRUE)
     /\ UNCHANGED <<activeParams, selectedDiv, divisionData, districtData,
                    popMarkers, ispData>>
     /\ UNCHANGED <<cardVars, filterVars, calcVars>>
  \/ /\ level = "division"
     /\ level' = "national"
     /\ selectedDiv' = Null
     /\ selectedDist' = Null
     /\ Render("national", Null, Null, activeParams, loading)
     /\ UNCHANGED <<activeParams, divisionData, districtData, popMarkers, ispData>>
     /\ UNCHANGED <<cardVars, filterVars, calcVars>>
  \/ /\ level = "national"
     /\ UNCHANGED vars
drillUp ==
  \/ /\ level = "district"
     /\ level' = "division"
     /\ selectedDist' = Null
     /\ Render("division", selectedDiv, Null, activeParams, TRUE)
     /\ UNCHANGED <<activeParams, selectedDiv, divisionData, districtData,
                    popMarkers, ispData>>
     /\ UNCHANGED <<cardVars, filterVars, calcVars>>
  \/ /\ level = "division"
     /\ level' = "national"
     /\ selectedDiv' = Null
     /\ selectedDist' = Null
     /\ districtData' = {}
     /\ popMarkers' = {}
     /\ ispData' = {}
     /\ Render("national", Null, Null, activeParams, loading)
     /\ UNCHANGED <<activeParams, divisionData>>
     /\ UNCHANGED <<cardVars, filterVars, calcVars>>
  \/ /\ level = "national"
     /\ UNCHANGED vars

resetDrill ==
  /\ level' = "national"
  /\ selectedDiv' = Null
  /\ selectedDist' = Null
  /\ districtData' = {}
  /\ popMarkers' = {}
  /\ ispData' = {}
  /\ Render("national", Null, Null, activeParams, loading)
  /\ UNCHANGED <<activeParams, divisionData>>
  /\ UNCHANGED <<cardVars, filterVars, calcVars>>

\* The global filter changes (FilterBar): activeParams is a new object.
FilterChange(ap) ==
  /\ ap # activeParams
  /\ activeParams' = ap
  /\ Render(level, selectedDiv, selectedDist, ap, loading)
  /\ UNCHANGED <<level, selectedDiv, selectedDist, divisionData, districtData,
                 popMarkers, ispData>>
  /\ UNCHANGED <<cardVars, filterVars, calcVars>>

RemoveAt(s, i) == [j \in 1..(Len(s) - 1) |-> IF j < i THEN s[j] ELSE s[j + 1]]

\* The writes after the `await` of each branch, guarded by the run's flag.
WriteResults(r) ==
  IF ~MayWrite(r)
  THEN UNCHANGED <<divisionData, districtData, popMarkers, ispData, loading>>
  ELSE /\ loading' = FALSE
       /\ CASE r.level = "national" ->
                 /\ divisionData' = {Rows(REG_R2_DIV_VIOLATIONS, r.params)}
                 /\ UNCHANGED <<districtData, popMarkers, ispData>>
            [] r.level = "division" ->
                 /\ districtData' = {Rows(REG_R2_DIST_VIOLATIONS, r.params)}
                 /\ popMarkers'   = {Rows(REG_R2_POP_MARKERS, r.params)}
                 /\ ispData'      = {Rows(REG_R2_ISP_BY_AREA, r.params)}
                 /\ UNCHANGED divisionData
            [] OTHER ->
                 /\ popMarkers'   = {Rows(REG_R2_POP_MARKERS, r.params)}
                 /\ ispData'      = {Rows(REG_R2_ISP_BY_AREA, r.params)}
                 /\ UNCHANGED <<divisionData, districtData>>

\* Variant: no Promise.all, every response writes what its branch writes.
FetchOkUnjoined(i) ==
  /\ i \in 1..Len(runs)
  /\ LET r == runs[i] IN
     /\ WriteResults(r)
     /\ runs' = IF r.pending = 1 THEN RemoveAt(runs, i)
                ELSE [runs EXCEPT ![i].pending = @ - 1]
     /\ UNCHANGED error
  /\ UNCHANGED <<activeParams, level, selectedDiv, selectedDist>>
  /\ UNCHANGED <<cardVars, filterVars, calcVars>>

\* One more fetch of run i succeeds.  Promise.all resolves with the last one.
FetchOk(i) ==
  /\ i \in 1..Len(runs)
  /\ LET r == runs[i] IN
     IF r.pending = 1
     THEN /\ WriteResults(r)
          /\ runs' = RemoveAt(runs, i)
          /\ UNCHANGED error
     ELSE /\ runs' = [runs EXCEPT ![i].pending = @ - 1]
          /\ UNCHANGED <<divisionData, districtData, popMarkers, ispData,
                         loading, error>>
  /\ UNCHANGED <<activeParams, level, selectedDiv, selectedDist>>
  /\ UNCHANGED <<cardVars, filterVars, calcVars>>

\* A fetch of run i fails: the await throws, catch and finally run; what the
\* other fetches of the run return no longer matters.
FetchFail(i) ==
  /\ i \in 1..Len(runs)
  /\ IF MayWrite(runs[i])
     THEN error' = ErrMsg /\ loading' = FALSE
     ELSE UNCHANGED <<error, loading>>
  /\ runs' = RemoveAt(runs, i)
  /\ UNCHANGED <<activeParams, level, selectedDiv, selectedDist, divisionData,
                 districtData, popMarkers, ispData>>
  /\ UNCHANGED <<cardVars, filterVars, calcVars>>

\* ---------------------------------------------------- useMetabaseCard
\* A JS object is the sequence of its <<key, value>> entries in insertion
\* order, which is the order JSON.stringify and Object.entries follow.
Entries(obj) == { obj[i] : i \in 1..Len(obj) }
Keys(obj)    == { obj[i][1] : i \in 1..Len(obj) }

\* obj[k] = v: an existing key keeps its place, a new key goes last.
Put(obj, k, v) ==
  IF k \in Keys(obj)
  THEN [i \in 1..Len(obj) |-> IF obj[i][1] = k THEN <<k, v>> ELSE obj[i]]
  ELSE Append(obj, <<k, v>>)

\* { ...base, ...src }
RECURSIVE Spread(_, _)
Spread(base, src) ==
  IF src = << >> THEN base
  ELSE Spread(Put(base, Head(src)[1], Head(src)[2]), Tail(src))

\* JSON.stringify of an object with string values: the keys and values in
\* insertion order.
RECURSIVE JSONstringify(_)
JSONstringify(obj) ==
  IF obj = << >> THEN << >>
  ELSE <<Head(obj)[1], Head(obj)[2]>> \o JSONstringify(Tail(obj))

toKey(cardId, params) == <<cardId>> \o JSONstringify(params)

ALL_KEYS == {"division", "district", "isp", "start_date", "end_date"}

\* useFilteredCard: the requested global filter keys, then the card's own
\* params spread on top.
mergedParams(ap, cardParams, filterKeys) ==
  Spread(SelectSeq(ap, LAMBDA e : e[1] \in filterKeys), cardParams)

\* The params objects the model draws from: the global filter holding
\* division and isp (FilterContext inserts division before isp) with no card
\* params, and the global filter holding isp with the division given as a
\* card param.
ParamChoices ==
  { mergedParams(<< <<"division", "Dhaka">>, <<"isp", "ISP1">> >>, << >>, ALL_KEYS),
    mergedParams(<< <<"isp", "ISP1">> >>, << <<"division", "Dhaka">> >>, ALL_KEYS) }
CardIds == {Null, "87"}
\* The (cardId, params) pairs the hook is rendered with: a card that is not
\* configured, and a configured card with either params object.
PropChoices ==
  { <<Null, << >> >> } \cup { <<c, p>> : c \in CardIds \ {Null}, p \in ParamChoices }

CACHE_TTL_MS == 300000
\* The clock readings the model visits: 0, then exactly one TTL later, then
\* millisecond by millisecond, MaxTicks steps in all.
MaxTicks == 2
\* getCardData calls that may be in flight together.
MaxLoads == 2

McErrMsg == "Failed to load data"

\* What the backend returns for a card and a parameter map (the request body
\* carries the parameters as a map; their order in the object is not part of
\* the query) when the request is issued at time asOf: the tables the cards
\* query keep receiving rows, so requests issued at different times may be
\* answered differently.
Result(cardId, params, asOf) ==
  [card |-> cardId, params |-> Entries(params), asOf |-> asOf]

CacheEntry(key) == CHOOSE e \in cache : e.key = key

\* Variant: an entry counts as expired from the TTL on (>= for >).
readCacheExpiresAtTTL(key) ==
  IF ~\E e \in cache : e.key = key THEN "miss"
  ELSE IF now - CacheEntry(key).ts >= CACHE_TTL_MS THEN "expired"
  ELSE "hit"

\* readCache's verdict on the entry of a key: "miss", "expired" or "hit".
readCache(key) ==
  IF ~\E e \in cache : e.key = key THEN "miss"
  ELSE IF now - CacheEntry(key).ts > CACHE_TTL_MS THEN "expired"
  ELSE "hit"

\* writeCache: setItem replaces the entry of the key.  (The entries are a few
\* small tables in a store that starts empty, so setItem does not run into
\* the quota and the catch branch is not taken.)
writeCache(c, key, data) ==
  { e \in c : e.key # key } \cup { [key |-> key, data |-> data, ts |-> now] }

\* load(bust) as created by the render with arguments (cardId, params).
load(cardId, params, bust) ==
  IF cardId = Null
  THEN /\ mcLoading' = FALSE
       /\ UNCHANGED <<rows, columns, mcError, cache, loads>>
  ELSE LET key == toKey(cardId, params)
           rc  == IF bust THEN "bust" ELSE readCache(key)
       IN IF rc = "hit"
          THEN /\ rows' = CacheEntry(key).data
               /\ columns' = CacheEntry(key).data
               /\ mcLoading' = FALSE
               /\ UNCHANGED <<mcError, cache, loads>>
          ELSE /\ Len(loads) < MaxLoads
               /\ cache' = IF rc = "expired" THEN { e \in cache : e.key # key } ELSE cache
               /\ mcLoading' = TRUE
               /\ mcError' = Null
               /\ loads' = Append(loads, [cardId |-> cardId, params |-> params,
                                           key |-> key, asOf |-> now, bust |-> bust])
               /\ UNCHANGED <<rows, columns>>

\* A render with new arguments: load is re-created when cardId or
\* JSON.stringify(params) changed, and the effect then calls it.
SetProps(cardId, params) ==
  /\ mcMounted
  /\ <<cardId, JSONstringify(params)>> # <<mcCardId, JSONstringify(mcParams)>>
  /\ mcCardId' = cardId
  /\ mcParams' = params
  /\ load(cardId, params, FALSE)
  /\ UNCHANGED <<mcMounted, now>>
  /\ UNCHANGED <<drillVars, filterVars, calcVars, tabVars>>

refetch ==
  /\ mcMounted
  /\ load(mcCardId, mcParams, TRUE)
  /\ UNCHANGED <<mcMounted, mcCardId, mcParams, now>>
  /\ UNCHANGED <<drillVars, filterVars, calcVars, tabVars>>

\* getCardData of load i resolves: parse, writeCache, setRows, setColumns,
\* and setLoading(false) in finally.
LoadOk(i) ==
  /\ i \in 1..Len(loads)
  /\ LET l == loads[i]
         data == {Result(l.cardId, l.params, l.asOf)}
     IN /\ cache' = writeCache(cache, l.key, data)
        /\ rows' = data
        /\ columns' = data
  /\ mcLoading' = FALSE
  /\ loads' = RemoveAt(loads, i)
  /\ UNCHANGED <<mcMounted, mcCardId, mcParams, mcError, now>>
  /\ UNCHANGED <<drillVars, filterVars, calcVars, tabVars>>

\* Variant: the catch branch dropping what is on display.
LoadFailClearsRows(i) ==
  /\ i \in 1..Len(loads)
  /\ mcError' = McErrMsg
  /\ mcLoading' = FALSE
  /\ rows' = {}
  /\ columns' = {}
  /\ loads' = RemoveAt(loads, i)
  /\ UNCHANGED <<mcMounted, mcCardId, mcParams, cache, now>>
  /\ UNCHANGED <<drillVars, filterVars, calcVars, tabVars>>

\* getCardData of load i rejects: setError, and setLoading(false) in finally.
LoadFail(i) ==
  /\ i \in 1..Len(loads)
  /\ mcError' = McErrMsg
  /\ mcLoading' = FALSE
  /\ loads' = RemoveAt(loads, i)
  /\ UNCHANGED <<mcMounted, mcCardId, mcParams, rows, columns, cache, now>>
  /\ UNCHANGED <<drillVars, filterVars, calcVars, tabVars>>

\* The component using the hook is unmounted.  The effect that calls load()
\* returns no cleanup and load() keeps no flag, so the getCardData calls in
\* flight stay as they are and LoadOk / LoadFail run their setters later on.
Unmount ==
  /\ mcMounted
  /\ mcMounted' = FALSE
  /\ UNCHANGED <<mcCardId, mcParams, rows, columns, mcLoading, mcError, cache, now, loads>>
  /\ UNCHANGED <<drillVars, filterVars, calcVars, tabVars>>

Tick ==
  /\ now < CACHE_TTL_MS + (MaxTicks - 1)
  /\ now' = IF now = 0 THEN CACHE_TTL_MS ELSE now + 1
  /\ UNCHANGED <<mcMounted, mcCardId, mcParams, rows, columns, mcLoading, mcError,
                 cache, loads>>
  /\ UNCHANGED <<drillVars, filterVars, calcVars, tabVars>>

\* ------------------------------------------- AuthProvider, FilterProvider
\* JS `a || b` on strings and null.
Or(a, b) == IF a \in {Null, ""} THEN b ELSE a

\* The user object of getCurrentUser(); groupRole is what resolveRole makes
\* of its groupIds.  NoUser stands for user = null (user?.id is undefined).
NoUser == [id |-> Null, division |-> "", isp |-> "", groupRole |-> Null]
Users ==
  { [id |-> "7", division |-> "Dhaka", isp |-> "", groupRole |-> "regional_officer"],
    [id |-> "9", division |-> "", isp |-> "ISP1", groupRole |-> "isp_user"] }

DIVISIONS    == {"Dhaka", "Khulna"}
DistrictOpts == {"Jashore"}          \* availableDistricts entries
IspOpts      == {"ISP1", "ISP2"}     \* ispList entries
DATE_PRESETS == {"7d", "14d", "30d", "all"}
PresetOpts   == DATE_PRESETS \cup {"custom"}
FromDate == "2024-01-05T00:00:00.000Z"
ToDate   == "2024-01-20T23:59:59.999Z"
MaxDates == {"2024-01-31T00:00:00.000Z"}

\* URLSearchParams.get: the value of the key, or null.
get(sp, k) ==
  IF \E i \in 1..Len(sp) : sp[i][1] = k
  THEN sp[CHOOSE i \in 1..Len(sp) : sp[i][1] = k][2]
  ELSE Null

\* The useState initialisers: the selection a query string decodes to.
FromUrl(sp) ==
  [division  |-> Or(get(sp, "div"), ""),
   district  |-> Or(get(sp, "dist"), ""),
   isp       |-> Or(get(sp, "isp"), ""),
   preset    |-> Or(get(sp, "range"), "30d"),
   startDate |-> Or(get(sp, "from"), Null),
   endDate   |-> Or(get(sp, "to"), Null)]

\* `if (v) p[k] = v`
PutIf(obj, k, v) == IF v \in {Null, ""} THEN obj ELSE Append(obj, <<k, v>>)

\* Variant: the sync effect leaving the preset out of the URL when no date
\* range applies.
ToUrlOmitAll(dv, ds, i, pr, sd, ed) ==
  PutIf(PutIf(PutIf(PutIf(PutIf(PutIf(<< >>,
    "div", dv), "dist", ds), "isp", i), "range", IF pr = "all" THEN "" ELSE pr),
    "from", sd), "to", ed)

\* The object the URL-sync effect hands to setSearchParams.
ToUrl(dv, ds, i, pr, sd, ed) ==
  PutIf(PutIf(PutIf(PutIf(PutIf(PutIf(<< >>,
    "div", dv), "dist", ds), "isp", i), "range", pr), "from", sd), "to", ed)

\* The links the provider is opened with: none, one the application wrote,
\* one naming a custom range, and one edited by hand.
UrlChoices ==
  { << >>,
    ToUrl("Khulna", "Jashore", "", "7d", Null, Null),
    ToUrl("", "", "ISP2", "custom", FromDate, ToDate),
    << <<"dist", "Jashore">> >> }

divisionLockedFor(u, r) == r = "regional_officer" /\ u.division # ""
ispLockedFor(u, r)      == r = "isp_user" /\ u.isp # ""
divisionLocked == divisionLockedFor(user, role)
ispLocked      == ispLockedFor(user, role)

\* dayjs(maxDate).subtract(days, 'day').toISOString() for the dates in MaxDates.
SubtractDays(md, days) ==
  CASE days = 7  -> "2024-01-24T00:00:00.000Z"
    [] days = 14 -> "2024-01-17T00:00:00.000Z"
    [] OTHER     -> "2024-01-01T00:00:00.000Z"

resolvedDates(pr, md, sd, ed) ==
  IF pr = "all" THEN [start |-> Null, end |-> Null]
  ELSE IF pr = "custom" THEN [start |-> sd, end |-> ed]
  ELSE IF md = Null THEN [start |-> Null, end |-> Null]
  ELSE [start |-> SubtractDays(md, CASE pr = "7d" -> 7 [] pr = "14d" -> 14 [] OTHER -> 30),
        end |-> md]

\* Variant: the dependency list of the resolvedDates memo without maxDate.
resolvedDatesDepsNoMaxDate(pr, md, sd, ed) == <<pr, sd, ed>>

\* The dependency lists of the two memos.
resolvedDatesDeps(pr, md, sd, ed) == <<pr, md, sd, ed>>
activeParamsDeps(dv, ds, i, rd)   == <<dv, ds, i, rd>>

\* The object the activeParams memo builds.
buildActiveParams(dv, ds, i, rd) ==
  PutIf(PutIf(PutIf(PutIf(PutIf(<< >>,
    "division", dv), "district", ds), "isp", i),
    "start_date", rd.start), "end_date", rd.end)

hasActiveFilters == division # "" \/ district # "" \/ isp # "" \/ preset # "30d"

\* The render and the effects that follow a change of the provider's state
\* or of the user.  A memo is recomputed when its dependency list changed;
\* the lock effect runs when user?.id differs from the one of the previous
\* render (and at mount), with the user and role of this render, and is
\* followed by the render of what it set; the URL-sync effect writes the
\* resulting selection.
Commit(u, r, idChanged, dv, ds, i, pr, sd, ed, md) ==
  LET dv2 == IF idChanged /\ divisionLockedFor(u, r) THEN u.division ELSE dv
      i2  == IF idChanged /\ ispLockedFor(u, r) THEN u.isp ELSE i
      rd2 == IF resolvedDatesDeps(pr, md, sd, ed)
                = resolvedDatesDeps(preset, maxDate, startDate, endDate)
             THEN resolvedDatesMemo
             ELSE resolvedDates(pr, md, sd, ed)
  IN /\ division' = dv2
     /\ district' = ds
     /\ isp' = i2
     /\ preset' = pr
     /\ startDate' = sd
     /\ endDate' = ed
     /\ maxDate' = md
     /\ resolvedDatesMemo' = rd2
     /\ activeParamsMemo' =
          IF activeParamsDeps(dv2, ds, i2, rd2)
               = activeParamsDeps(division, district, isp, resolvedDatesMemo)
          THEN activeParamsMemo
          ELSE buildActiveParams(dv2, ds, i2, rd2)
     /\ searchParams' = ToUrl(dv2, ds, i2, pr, sd, ed)

\* The effects of the first render.
MountEffects ==
  /\ ~fpMounted
  /\ fpMounted' = TRUE
  /\ Commit(user, role, TRUE, division, district, isp, preset, startDate, endDate, maxDate)
  /\ UNCHANGED authVars
  /\ UNCHANGED <<drillVars, cardVars, calcVars, tabVars>>

setDivision(val) ==
  /\ fpMounted
  /\ Commit(user, role, FALSE, Or(val, ""), "", isp, preset, startDate, endDate, maxDate)
  /\ UNCHANGED <<authVars, fpMounted>>
  /\ UNCHANGED <<drillVars, cardVars, calcVars, tabVars>>

setDistrict(val) ==
  /\ fpMounted
  /\ Commit(user, role, FALSE, division, Or(val, ""), isp, preset, startDate, endDate, maxDate)
  /\ UNCHANGED <<authVars, fpMounted>>
  /\ UNCHANGED <<drillVars, cardVars, calcVars, tabVars>>

setIsp(val) ==
  /\ fpMounted
  /\ Commit(user, role, FALSE, division, district, Or(val, ""), preset, startDate, endDate, maxDate)
  /\ UNCHANGED <<authVars, fpMounted>>
  /\ UNCHANGED <<drillVars, cardVars, calcVars, tabVars>>

setPreset(val) ==
  /\ fpMounted
  /\ Commit(user, role, FALSE, division, district, isp, val, startDate, endDate, maxDate)
  /\ UNCHANGED <<authVars, fpMounted>>
  /\ UNCHANGED <<drillVars, cardVars, calcVars, tabVars>>

\* The RangePicker's onChange: setStartDate and setEndDate together.
setRange(from, to) ==
  /\ fpMounted
  /\ preset = "custom"
  /\ Commit(user, role, FALSE, division, district, isp, preset,
            Or(from, Null), Or(to, Null), maxDate)
  /\ UNCHANGED <<authVars, fpMounted>>
  /\ UNCHANGED <<drillVars, cardVars, calcVars, tabVars>>

resetFilters ==
  /\ fpMounted
  /\ Commit(user, role, FALSE, "", "", "", "30d", Null, Null, maxDate)
  /\ UNCHANGED <<authVars, fpMounted>>
  /\ UNCHANGED <<drillVars, cardVars, calcVars, tabVars>>

\* The metadata effect delivers MAX(detection_time).
MetaLoaded(md) ==
  /\ fpMounted
  /\ maxDate = Null
  /\ Commit(user, role, FALSE, division, district, isp, preset, startDate, endDate, md)
  /\ UNCHANGED <<authVars, fpMounted>>
  /\ UNCHANGED <<drillVars, cardVars, calcVars, tabVars>>

\* login() with the permission groups cached: setUser(u) and setRole(...) run
\* in the same continuation and are rendered together.
loginCached(u) ==
  /\ fpMounted
  /\ user' = u
  /\ role' = u.groupRole
  /\ Commit(u, u.groupRole, u.id # user.id,
            division, district, isp, preset, startDate, endDate, maxDate)
  /\ UNCHANGED <<resolving, fpMounted>>
  /\ UNCHANGED <<drillVars, cardVars, calcVars, tabVars>>

\* login() with no cached groups: setUser(u), then resolveAndSetRole(u) waits
\* for getPermissionGroups().
login(u) ==
  /\ fpMounted
  /\ resolving = NoUser
  /\ user' = u
  /\ resolving' = u
  /\ Commit(u, role, u.id # user.id,
            division, district, isp, preset, startDate, endDate, maxDate)
  /\ UNCHANGED <<role, fpMounted>>
  /\ UNCHANGED <<drillVars, cardVars, calcVars, tabVars>>

\* getPermissionGroups() settles: setRole(resolveRole(...)), or
\* setRole('viewer') from the catch.  user?.id is as it was, so the lock
\* effect does not run.
resolveAndSetRole(ok) ==
  /\ fpMounted
  /\ resolving # NoUser
  /\ role' = IF ok THEN resolving.groupRole ELSE "viewer"
  /\ resolving' = NoUser
  /\ UNCHANGED <<user, fpMounted, selVars>>
  /\ UNCHANGED <<drillVars, cardVars, calcVars, tabVars>>

\* logout(), or the 'mb-session-expired' event.
logout ==
  /\ fpMounted
  /\ user # NoUser
  /\ user' = NoUser
  /\ role' = Null
  /\ Commit(NoUser, Null, TRUE, division, district, isp, preset, startDate, endDate, maxDate)
  /\ UNCHANGED <<resolving, fpMounted>>
  /\ UNCHANGED <<drillVars, cardVars, calcVars, tabVars>>

\* The FilterBar's wiring of the setters: a locked Select is disabled, the
\* district Select is disabled without a division, and the Reset button is
\* shown while hasActiveFilters.
FilterBar_setDivision(val) == ~divisionLocked /\ setDivision(val)
FilterBar_setDistrict(val) == division # "" /\ setDistrict(val)
FilterBar_setIsp(val)      == ~ispLocked /\ setIsp(val)
FilterBar_resetFilters     == hasActiveFilters /\ resetFilters

\* ---------------------------------------------------------------- R2Tab
\* The drill-down tab of RegulatoryDashboard: useDrillData, useAuth, the
\* auto-drill effect and the controls wired to the drill functions.  The tab
\* is rendered below Guard, and the app reaches a guarded route only after
\* login() or the session restore has set both user and role, so user and
\* role are fixed for as long as the tab is mounted.

\* React runs a pending passive effect before it handles the next event or
\* response, so nothing else happens while the auto-drill effect is due.
EffectsFlushed == seenLoading = loading

\* The auto-drill effect.  Of its dependencies [user?.id, role, loading] only
\* loading changes while the tab is mounted.
autoDrillEffect ==
  /\ seenLoading # loading
  /\ seenLoading' = loading
  /\ IF /\ role = "regional_officer"
        /\ user.division # ""
        /\ level = "national"
        /\ ~loading
     THEN drillToDiv(toGeoDiv(user.division))
     ELSE UNCHANGED <<drillVars, cardVars, filterVars, calcVars>>

\* A click on a division polygon: DrillDownMap is rendered only while loading
\* is false, and its division layer only at national level.
R2_onDivClick(name) ==
  /\ EffectsFlushed
  /\ ~loading /\ level = "national"
  /\ drillToDiv(name)
  /\ UNCHANGED tabVars

\* A link button of the division table, rendered at national level for every
\* row of divisionData.  While loading the table carries `loading`, which
\* dims it and keeps the pointer off; the buttons stay in the document and
\* their onClick still answers the keyboard.
R2_divisionLink(v) ==
  /\ EffectsFlushed
  /\ level = "national" /\ divisionData # {}
  /\ drillToDiv(v)
  /\ UNCHANGED tabVars

\* A click on a district polygon: the district layer is rendered below
\* national level for the districts that have a row in districtData.
R2_onDistClick(name) ==
  /\ EffectsFlushed
  /\ ~loading /\ level # "national" /\ districtData # {}
  /\ drillToDist(name)
  /\ UNCHANGED tabVars

\* A link button of the district table, rendered at division level.
R2_districtLink(v) ==
  /\ EffectsFlushed
  /\ level = "division" /\ districtData # {}
  /\ drillToDist(v)
  /\ UNCHANGED tabVars

\* The Back button (below national level) and the division breadcrumb (at
\* district level).
R2_drillUp ==
  /\ EffectsFlushed
  /\ level # "national"
  /\ drillUp
  /\ UNCHANGED tabVars

\* The National breadcrumb (always there) and the Reset button.
R2_resetDrill ==
  /\ EffectsFlushed
  /\ resetDrill
  /\ UNCHANGED tabVars

R2_FilterChange(ap) == EffectsFlushed /\ FilterChange(ap) /\ UNCHANGED tabVars
R2_FetchOk(i)       == EffectsFlushed /\ FetchOk(i) /\ UNCHANGED tabVars
R2_FetchFail(i)     == EffectsFlushed /\ FetchFail(i) /\ UNCHANGED tabVars

\* ------------------------------------------------------ district names
\* The names the backend uses (name_en) and the names the boundary file uses
\* (shapeName): the nine pairs of the table, and districts that are spelled
\* the same on both sides.  The empty name is what buildDistrictData passes
\* for a row without a district.
SameOnBothSides == {"Bagerhat", "Khulna", "Satkhira", "Sylhet"}
DbDistricts  == { e[1] : e \in DIST_DB_TO_GEO } \cup SameOnBothSides
GeoDistricts == { e[2] : e \in DIST_DB_TO_GEO } \cup SameOnBothSides
DistNames    == DbDistricts \cup GeoDistricts \cup {""}

\* Conversions applied to one name in a row.
MaxConv == 2

\* The name the next conversion is applied to.
DistCurrent == IF distTrail = << >> THEN distIn ELSE distTrail[Len(distTrail)].out

ApplyToGeoDist ==
  /\ Len(distTrail) < MaxConv
  /\ distTrail' = Append(distTrail, [fn |-> "toGeoDist", arg |-> DistCurrent,
                                     out |-> toGeoDist(DistCurrent)])
  /\ UNCHANGED <<distIn, mapMax, mapTotals, mapFills>>
  /\ UNCHANGED <<drillVars, cardVars, filterVars, tabVars>>

ApplyToDbDist ==
  /\ Len(distTrail) < MaxConv
  /\ distTrail' = Append(distTrail, [fn |-> "toDbDist", arg |-> DistCurrent,
                                     out |-> toDbDist(DistCurrent)])
  /\ UNCHANGED <<distIn, mapMax, mapTotals, mapFills>>
  /\ UNCHANGED <<drillVars, cardVars, filterVars, tabVars>>

\* ------------------------------------------- DrillDownMap colour scale
\* `value / max > pct / 100` for integers value >= 0 and max >= 1.  The
\* quotients and the thresholds are far more than one rounding step apart
\* unless they are equal, so the comparison of the doubles is the comparison
\* of the fractions.
RatioAbove(value, max, pct) == value * 100 > pct * max

\* Variant: the two upper thresholds the wrong way round.
getViolationColorSwapped(value, max) ==
  IF max = 0 \/ value = 0 THEN "#e5e7eb"
  ELSE IF RatioAbove(value, max, 60) THEN "#eab308"
  ELSE IF RatioAbove(value, max, 30) THEN "#dc2626"
  ELSE "#22c55e"

\* The three-tier scale of the current map.
getViolationColor(value, max) ==
  IF max = 0 \/ value = 0 THEN "#e5e7eb"
  ELSE IF RatioAbove(value, max, 60) THEN "#dc2626"
  ELSE IF RatioAbove(value, max, 30) THEN "#eab308"
  ELSE "#22c55e"

getDistrictColor(value, max) ==
  IF max = 0 \/ value = 0 THEN "#e5e7eb"
  ELSE IF RatioAbove(value, max, 60) THEN "#dc2626"
  ELSE IF RatioAbove(value, max, 30) THEN "#eab308"
  ELSE "#22c55e"

\* The five-tier scales of the earlier map version.
getViolationColor5(value, max) ==
  IF max = 0 \/ value = 0 THEN "#e5e7eb"
  ELSE IF RatioAbove(value, max, 75) THEN "#b91c1c"
  ELSE IF RatioAbove(value, max, 50) THEN "#ef4444"
  ELSE IF RatioAbove(value, max, 25) THEN "#f87171"
  ELSE "#fca5a5"

getDistrictColor5(value, max) ==
  IF max = 0 \/ value = 0 THEN "#fff7ed"
  ELSE IF RatioAbove(value, max, 75) THEN "#9a3412"
  ELSE IF RatioAbove(value, max, 50) THEN "#ea580c"
  ELSE IF RatioAbove(value, max, 25) THEN "#fb923c"
  ELSE "#fed7aa"

\* The largest total a layer shows.
MaxTotal == 10

\* The style functions: the fillColor of an area with the given total.
Fills(value, max) ==
  [violation  |-> getViolationColor(value, max),
   district   |-> getDistrictColor(value, max),
   violation5 |-> getViolationColor5(value, max),
   district5  |-> getDistrictColor5(value, max)]

\* New data arrives and the layer is styled again: the scale's max is at
\* least 1 and at least every total on the layer.
Restyle(max, v1, v2) ==
  /\ max >= 1 /\ v1 <= max /\ v2 <= max
  /\ <<max, <<v1, v2>>>> # <<mapMax, mapTotals>>
  /\ mapMax' = max
  /\ mapTotals' = <<v1, v2>>
  /\ mapFills' = <<Fills(v1, max), Fills(v2, max)>>
  /\ UNCHANGED <<distIn, distTrail>>
  /\ UNCHANGED <<drillVars, cardVars, filterVars, tabVars>>

\* The calculations a specification leaves out.
NamesIdle == distIn = "" /\ distTrail = << >>
ScaleIdle ==
  /\ mapMax = 1 /\ mapTotals = <<0, 0>>
  /\ mapFills = <<Fills(0, 1), Fills(0, 1)>>
CalcIdle == NamesIdle /\ ScaleIdle

\* No R2Tab mounted.
TabIdle == seenLoading = TRUE

\* ----------------------------------------------------- specifications
\* useDrillData after mount: first render plus the effect's first run.
DrillInit ==
  /\ activeParams \in FilterChoices
  /\ level = "national"
  /\ selectedDiv = Null
  /\ selectedDist = Null
  /\ divisionData = {}
  /\ districtData = {}
  /\ popMarkers = {}
  /\ ispData = {}
  /\ loading = TRUE
  /\ error = Null
  /\ runs = << NewRun("national", Null, Null, activeParams) >>

\* useMetabaseCard after mount in a fresh tab (empty sessionStorage): the
\* effect has called load() once.
CardInit ==
  /\ mcMounted = TRUE
  /\ \E cp \in PropChoices : mcCardId = cp[1] /\ mcParams = cp[2]
  /\ rows = {}
  /\ columns = {}
  /\ mcError = Null
  /\ cache = {}
  /\ now = 0
  /\ mcLoading = (mcCardId # Null)
  /\ loads = IF mcCardId = Null THEN << >>
             ELSE << [cardId |-> mcCardId, params |-> mcParams,
                      key |-> toKey(mcCardId, mcParams), asOf |-> 0,
                      bust |-> FALSE] >>
  /\ refreshed = {} /\ refetched = {}

\* The hook that a specification leaves out stays as mounted with nothing to do.
CardIdle ==
  /\ mcMounted = TRUE
  /\ mcCardId = Null /\ mcParams = << >> /\ rows = {} /\ columns = {}
  /\ mcLoading = FALSE /\ mcError = Null /\ cache = {} /\ now = 0 /\ loads = << >>
  /\ refreshed = {} /\ refetched = {}

DrillIdle ==
  /\ activeParams = [isp |-> Absent, start_date |-> Absent, end_date |-> Absent,
                     division |-> Absent, district |-> Absent]
  /\ level = "national" /\ selectedDiv = Null /\ selectedDist = Null
  /\ divisionData = {} /\ districtData = {} /\ popMarkers = {} /\ ispData = {}
  /\ loading = FALSE /\ error = Null /\ runs = << >>

\* The providers before anyone is signed in and with an empty query string.
ProviderIdle ==
  /\ fpMounted = FALSE /\ searchParams = << >>
  /\ division = "" /\ district = "" /\ isp = "" /\ preset = "30d"
  /\ startDate = Null /\ endDate = Null /\ maxDate = Null
  /\ resolvedDatesMemo = [start |-> Null, end |-> Null]
  /\ activeParamsMemo = << >>

FilterIdle ==
  /\ user = NoUser /\ role = Null /\ resolving = NoUser
  /\ ProviderIdle

\* FilterProvider at its first render: the selection decoded from the URL,
\* under an AuthProvider that knows no user yet, a user whose role is still
\* being resolved, or a user with the role.
FilterInit ==
  /\ \/ user = NoUser /\ role = Null /\ resolving = NoUser
     \/ \E u \in Users : user = u /\ role = Null /\ resolving = u
     \/ \E u \in Users : user = u /\ role = u.groupRole /\ resolving = NoUser
  /\ fpMounted = FALSE
  /\ searchParams \in UrlChoices
  /\ division  = FromUrl(searchParams).division
  /\ district  = FromUrl(searchParams).district
  /\ isp       = FromUrl(searchParams).isp
  /\ preset    = FromUrl(searchParams).preset
  /\ startDate = FromUrl(searchParams).startDate
  /\ endDate   = FromUrl(searchParams).endDate
  /\ maxDate = Null
  /\ resolvedDatesMemo = resolvedDates(preset, maxDate, startDate, endDate)
  /\ activeParamsMemo = buildActiveParams(division, district, isp, resolvedDatesMemo)

Init == DrillInit /\ CardIdle /\ FilterIdle /\ CalcIdle /\ TabIdle

Next ==
  \/ \E g \in Divs : drillToDiv(g) /\ UNCHANGED tabVars
  \/ \E g \in Dists : drillToDist(g) /\ UNCHANGED tabVars
  \/ drillUp /\ UNCHANGED tabVars
  \/ resetDrill /\ UNCHANGED tabVars
  \/ \E ap \in FilterChoices : FilterChange(ap) /\ UNCHANGED tabVars
  \/ \E i \in 1..MaxRuns : FetchOk(i) /\ UNCHANGED tabVars
  \/ \E i \in 1..MaxRuns : FetchFail(i) /\ UNCHANGED tabVars

\* useDrillData driven through its API.
Spec == Init /\ [][Next]_vars

\* useDrillData with every fetch that was issued answered in the end, by
\* success or by failure.
SpecLive ==
  /\ Init /\ [][Next]_vars
  /\ WF_vars(\E i \in 1..MaxRuns :
               (FetchOk(i) \/ FetchFail(i)) /\ UNCHANGED tabVars)

InitCard == CardInit /\ DrillIdle /\ FilterIdle /\ CalcIdle /\ TabIdle

NextCard ==
  \/ \E cp \in PropChoices : SetProps(cp[1], cp[2]) /\ UNCHANGED histVars
  \/ refetch /\ UNCHANGED histVars
  \/ \E i \in 1..MaxLoads : LoadOk(i) /\ UNCHANGED histVars
  \/ \E i \in 1..MaxLoads : LoadFail(i) /\ UNCHANGED histVars
  \/ Tick /\ UNCHANGED histVars

\* useMetabaseCard driven through its arguments, refetch() and the clock.
SpecCard == InitCard /\ [][NextCard]_vars

NextCardUnmount ==
  \/ \E cp \in PropChoices : SetProps(cp[1], cp[2]) /\ UNCHANGED histVars
  \/ refetch /\ UNCHANGED histVars
  \/ \E i \in 1..MaxLoads : LoadOk(i) /\ UNCHANGED histVars
  \/ \E i \in 1..MaxLoads : LoadFail(i) /\ UNCHANGED histVars
  \/ Tick /\ UNCHANGED histVars
  \/ Unmount /\ UNCHANGED histVars

\* The same, with the component that uses the hook unmounted at some point.
SpecCardUnmount == InitCard /\ [][NextCardUnmount]_vars

\* The history of refetch(): a successful refetch() notes the request time
\* of what it stored under its key; a non-busting load of the key ends the
\* note.
NoteRefetch(i) ==
  refreshed' = IF loads[i].bust
               THEN { r \in refreshed : r.key # loads[i].key }
                      \cup { [key |-> loads[i].key, asOf |-> loads[i].asOf] }
               ELSE refreshed
NoteLoad(cardId, params) ==
  refreshed' = { r \in refreshed : cardId = Null \/ r.key # toKey(cardId, params) }

\* A call of refetch() with a card configured is noted with its time.
NoteCall ==
  refetched' = IF mcCardId = Null THEN refetched
               ELSE { r \in refetched : r.key # toKey(mcCardId, mcParams) }
                      \cup { [key |-> toKey(mcCardId, mcParams), at |-> now] }

NextCardHist ==
  \/ \E cp \in PropChoices :
        SetProps(cp[1], cp[2]) /\ NoteLoad(cp[1], cp[2]) /\ UNCHANGED refetched
  \/ refetch /\ NoteCall /\ UNCHANGED refreshed
  \/ \E i \in 1..MaxLoads : LoadOk(i) /\ NoteRefetch(i) /\ UNCHANGED refetched
  \/ \E i \in 1..MaxLoads : LoadFail(i) /\ UNCHANGED histVars
  \/ Tick /\ UNCHANGED histVars

\* useMetabaseCard as in SpecCard, with the history of refetch() kept.
SpecCardHist == InitCard /\ [][NextCardHist]_vars

InitFilter == FilterInit /\ DrillIdle /\ CardIdle /\ CalcIdle /\ TabIdle

NextFilter ==
  \/ MountEffects
  \/ \E v \in DIVISIONS \cup {Null} : setDivision(v)
  \/ \E v \in DistrictOpts \cup {Null} : setDistrict(v)
  \/ \E v \in IspOpts \cup {Null} : setIsp(v)
  \/ \E v \in PresetOpts : setPreset(v)
  \/ setRange(FromDate, ToDate) \/ setRange(Null, Null)
  \/ resetFilters
  \/ \E md \in MaxDates : MetaLoaded(md)
  \/ \E u \in Users : loginCached(u)
  \/ \E u \in Users : login(u)
  \/ \E ok \in BOOLEAN : resolveAndSetRole(ok)
  \/ logout

\* FilterProvider driven through its setters, with users signing in and out.
SpecFilter == InitFilter /\ [][NextFilter]_vars

NextAuth ==
  \/ MountEffects
  \/ \E md \in MaxDates : MetaLoaded(md)
  \/ \E u \in Users : loginCached(u)
  \/ \E u \in Users : login(u)
  \/ \E ok \in BOOLEAN : resolveAndSetRole(ok)
  \/ logout

\* FilterProvider with users signing in and out and nobody touching the
\* filter bar.  The mount effects run after the first render, and a
\* permission-groups request in flight is answered.
SpecAuth ==
  /\ InitFilter /\ [][NextAuth]_vars
  /\ WF_vars(MountEffects)
  /\ WF_vars(\E ok \in BOOLEAN : resolveAndSetRole(ok))

InitNames ==
  /\ distIn \in DistNames /\ distTrail = << >>
  /\ ScaleIdle /\ DrillIdle /\ CardIdle /\ FilterIdle /\ TabIdle

NextNames ==
  \/ ApplyToGeoDist
  \/ ApplyToDbDist

\* toGeoDist and toDbDist applied, one after the other, to a district name.
SpecNames == InitNames /\ [][NextNames]_vars

InitScale == ScaleIdle /\ NamesIdle /\ DrillIdle /\ CardIdle /\ FilterIdle /\ TabIdle

NextScale ==
  \E max \in 1..MaxTotal : \E v1, v2 \in 0..MaxTotal : Restyle(max, v1, v2)

\* The colour functions applied to the totals of a map layer.
SpecScale == InitScale /\ [][NextScale]_vars

\* R2Tab at mount: a signed-in user whose role is resolved, the hook after
\* its first render, and the auto-drill effect run once (loading was true).
InitTab ==
  /\ DrillInit /\ CardIdle /\ CalcIdle /\ ProviderIdle
  /\ user \in Users /\ role = user.groupRole /\ resolving = NoUser
  /\ seenLoading = TRUE

NextTab ==
  \/ autoDrillEffect
  \/ \E name \in Divs : R2_onDivClick(name)
  \/ \E v \in Divs : R2_divisionLink(v)
  \/ \E name \in Dists : R2_onDistClick(name)
  \/ \E v \in Dists : R2_districtLink(v)
  \/ R2_drillUp
  \/ R2_resetDrill
  \/ \E ap \in FilterChoices : R2_FilterChange(ap)
  \/ \E i \in 1..MaxRuns : R2_FetchOk(i)
  \/ \E i \in 1..MaxRuns : R2_FetchFail(i)

\* The drill-down tab used by a signed-in user; an effect that is due runs.
SpecTab == InitTab /\ [][NextTab]_vars /\ WF_vars(autoDrillEffect)

\* ------------------------------------------------------------ helpers
LiveRuns == { i \in 1..Len(runs) : ~runs[i].cancelled }

\* A response of run i was processed in this step: the run lost one
\* outstanding fetch or left the list of runs in flight.
ResponseStep(i) ==
  /\ i \in 1..Len(runs)
  /\ \/ runs' = RemoveAt(runs, i)
     \/ runs' = [runs EXCEPT ![i].pending = @ - 1]

\* The parameter object a fetch at division level for (dv, ap) must carry.
DivisionScope(dv, ap) ==
  [isp |-> ap.isp, start_date |-> ap.start_date, end_date |-> ap.end_date,
   division |-> dv, district |-> Absent]

\* ------------------------------------------------------------ C1
C1_FinalState ==
  (level = "division" /\ selectedDiv # Null /\ ~loading /\ error = Null) =>
     /\ districtData = {Rows(REG_R2_DIST_VIOLATIONS, DivisionScope(selectedDiv, activeParams))}
     /\ popMarkers   = {Rows(REG_R2_POP_MARKERS,     DivisionScope(selectedDiv, activeParams))}
     /\ ispData      = {Rows(REG_R2_ISP_BY_AREA,     DivisionScope(selectedDiv, activeParams))}

\* Whatever has or has not returned, nothing on display belongs to a division
\* other than the selected one.
C1_OnlySelectedDivision ==
  \A d \in districtData \cup popMarkers \cup ispData :
     d.params.division = toDbDiv(selectedDiv)

C1_StaleSilent ==
  \A i \in 1..Len(runs) :
     (runs[i].cancelled /\ ResponseStep(i)) =>
        UNCHANGED <<divisionData, districtData, popMarkers, ispData, loading, error>>

\* C1: after drillToDiv(A) then drillToDiv(B) with A's fetches outstanding,
\* for every arrival order the settled division-level state holds exactly the
\* results of the fetches issued for B, and no response of a superseded run
\* writes districtData, popMarkers, ispData, error or loading.
C1_LastDrillWins ==
  [](C1_FinalState /\ C1_OnlySelectedDivision) /\ [][C1_StaleSilent]_vars

\* B's results are in place while a superseded run for A is still in flight.
C1_Witness ==
  /\ level = "division" /\ selectedDiv = "Khulna" /\ ~loading /\ error = Null
  /\ districtData = {Rows(REG_R2_DIST_VIOLATIONS, DivisionScope("Khulna", activeParams))}
  /\ \E i \in 1..Len(runs) :
        runs[i].cancelled /\ runs[i].level = "division"
        /\ runs[i].params.division = "Dhaka"

\* ------------------------------------------------------------ C3
LastRun(rs) == rs[Len(rs)]

\* The step started a run that is now the only live one.
StartedRun ==
  /\ Len(runs') >= 1
  /\ ~LastRun(runs').cancelled
  /\ LastRun(runs').pending = Cardinality(LastRun(runs').cards)
  /\ \A i \in 1..(Len(runs') - 1) : runs'[i].cancelled

\* C3: drillUp at level 'district' makes the level 'division', keeps
\* districtData, and issues only the PoP-marker and ISP-by-area fetches for
\* the parent division (no district key), never REG_R2_DIST_VIOLATIONS.
C3_DrillUpNoAggregateRefetch ==
  [][ (level = "district" /\ selectedDiv # Null /\ selectedDist # Null /\ drillUp) =>
        /\ level' = "division"
        /\ districtData' = districtData
        /\ StartedRun
        /\ LastRun(runs').cards = {REG_R2_POP_MARKERS, REG_R2_ISP_BY_AREA}
        /\ LastRun(runs').params.division = toDbDiv(selectedDiv)
        /\ LastRun(runs').params.district = Absent ]_vars

\* ------------------------------------------------------------ C5
C5_Issue ==
  \A g \in Divs :
    (level = "national" /\ selectedDiv = Null /\ selectedDist = Null /\ drillToDiv(g)) =>
       /\ level' = "division" /\ selectedDiv' = g
       /\ districtData' = {} /\ popMarkers' = {} /\ ispData' = {}
       /\ StartedRun
       /\ LastRun(runs').cards =
            {REG_R2_DIST_VIOLATIONS, REG_R2_POP_MARKERS, REG_R2_ISP_BY_AREA}
       /\ LastRun(runs').pending = 3
       /\ LastRun(runs').params.division = g
       /\ LastRun(runs').params.district = Absent

C5_Complete ==
  \A i \in LiveRuns :
    (runs[i].level = "division" /\ runs[i].pending = 1
       /\ runs' = RemoveAt(runs, i) /\ error' = Null) =>
       /\ ~loading'
       /\ districtData' = {Rows(REG_R2_DIST_VIOLATIONS, DivisionScope(selectedDiv, activeParams))}
       /\ popMarkers'   = {Rows(REG_R2_POP_MARKERS,     DivisionScope(selectedDiv, activeParams))}
       /\ ispData'      = {Rows(REG_R2_ISP_BY_AREA,     DivisionScope(selectedDiv, activeParams))}

\* C5: drillToDiv(D) from the national state with no selection sets level
\* 'division' and selectedDiv D, empties districtData, popMarkers and ispData
\* at once and issues exactly three fetches carrying division = D; when the
\* last of them returns the three hold the results for D only.
C5_DrillToDivFetchesThree == [][C5_Issue /\ C5_Complete]_vars

\* The three results for Dhaka are in place although the filter names Khulna.
C5_Witness ==
  /\ level = "division" /\ selectedDiv = "Dhaka" /\ ~loading /\ error = Null
  /\ activeParams.division = "Khulna"
  /\ districtData # {} /\ popMarkers # {} /\ ispData # {}
  /\ \A d \in districtData \cup popMarkers \cup ispData : d.params.division = "Dhaka"
  /\ runs = << >>

\* ------------------------------------------------------------ C6
\* C6 as stated: entering 'district' through drillToDist(T) issues the same
\* three fetches as the division level, each scoped to division and district.
C6_DrillToDistFetchesThree ==
  [][ \A t \in Dists :
        (level = "division" /\ selectedDiv # Null /\ drillToDist(t)) =>
           /\ StartedRun
           /\ LastRun(runs').cards =
                {REG_R2_DIST_VIOLATIONS, REG_R2_POP_MARKERS, REG_R2_ISP_BY_AREA}
           /\ LastRun(runs').params.division = toDbDiv(selectedDiv)
           /\ LastRun(runs').params.district = toDbDist(t) ]_vars

\* C6 amended: entering 'district' from 'division' (a division selected)
\* through drillToDist(T) issues two fetches, PoP markers and ISP by area,
\* each scoped to the selected division and to district T; the sub-region
\* aggregate is not fetched and districtData is left as it was.
C6_DrillToDistFetchesTwo ==
  [][ \A t \in Dists :
        (level = "division" /\ selectedDiv # Null /\ drillToDist(t)) =>
           /\ level' = "district" /\ selectedDist' = t
           /\ StartedRun
           /\ LastRun(runs').cards = {REG_R2_POP_MARKERS, REG_R2_ISP_BY_AREA}
           /\ LastRun(runs').params.division = toDbDiv(selectedDiv)
           /\ LastRun(runs').params.district = toDbDist(t)
           /\ districtData' = districtData ]_vars

\* The district-level run is in flight with both scopes, aggregate kept.
C6_Witness ==
  /\ level = "district" /\ selectedDiv = "Dhaka" /\ selectedDist = "Jessore"
  /\ districtData # {}
  /\ Len(runs) >= 1 /\ ~LastRun(runs).cancelled
  /\ LastRun(runs).cards = {REG_R2_POP_MARKERS, REG_R2_ISP_BY_AREA}
  /\ LastRun(runs).params.division = "Dhaka"
  /\ LastRun(runs).params.district = "Jashore"

\* ------------------------------------------------------------ C7
\* C7: every fetch issued at level 'division' carries division =
\* toDbDiv(selectedDiv) and no district key, every fetch at level 'district'
\* carries division = toDbDiv(selectedDiv) and district =
\* toDbDist(selectedDist), whatever the global filter holds; a national fetch
\* never carries a district key; isp, start_date and end_date of the global
\* filter are passed through unchanged.
C7_DrillOverridesFilter ==
  \A i \in 1..Len(runs) :
    LET r == runs[i] IN
    /\ r.level \in {"national", "division"} => r.params.district = Absent
    /\ r.level \in {"division", "district"} => r.params.division \in Divs
    /\ r.level = "district" => r.params.district \in {toDbDist(t) : t \in Dists}
    /\ ~r.cancelled =>
         /\ r.level = level
         /\ r.params.isp = activeParams.isp
         /\ r.params.start_date = activeParams.start_date
         /\ r.params.end_date = activeParams.end_date
         /\ level = "national" => r.params.division = activeParams.division
         /\ level \in {"division", "district"} =>
               r.params.division = toDbDiv(selectedDiv)
         /\ level = "district" => r.params.district = toDbDist(selectedDist)

\* A district-level fetch in flight while the filter names another division
\* and another district.
C7_Witness ==
  /\ level = "district" /\ selectedDiv = "Dhaka" /\ selectedDist = "Jessore"
  /\ activeParams.division = "Khulna" /\ activeParams.district = "Bagerhat"
  /\ \E i \in LiveRuns :
        /\ runs[i].params.division = "Dhaka"
        /\ runs[i].params.district = "Jashore"
        /\ runs[i].params.isp = "ISP1"

\* ------------------------------------------------------------ C8
\* The cards the branch of the current level fetches, spelled out.
LevelCards ==
  IF level = "national" THEN {REG_R2_DIV_VIOLATIONS}
  ELSE IF level = "division" /\ selectedDiv # Null
  THEN {REG_R2_DIST_VIOLATIONS, REG_R2_POP_MARKERS, REG_R2_ISP_BY_AREA}
  ELSE IF level = "district" /\ selectedDiv # Null /\ selectedDist # Null
  THEN {REG_R2_POP_MARKERS, REG_R2_ISP_BY_AREA}
  ELSE {}

\* C8: a change of the global filter's active parameters at any level
\* supersedes the run in flight and re-issues the same level's fetches with
\* the new values merged in; level, selectedDiv and selectedDist stay.
C8_FilterChangeReissues ==
  [][ \A ap \in FilterChoices :
        FilterChange(ap) =>
          /\ level' = level /\ selectedDiv' = selectedDiv /\ selectedDist' = selectedDist
          /\ \A i \in 1..Len(runs) : runs'[i] = [runs[i] EXCEPT !.cancelled = TRUE]
          /\ IF LevelCards = {}
             THEN Len(runs') = Len(runs)
             ELSE /\ Len(runs') = Len(runs) + 1
                  /\ StartedRun
                  /\ LastRun(runs').level = level
                  /\ LastRun(runs').cards = LevelCards
                  /\ LastRun(runs').params.isp = ap.isp
                  /\ LastRun(runs').params.start_date = ap.start_date
                  /\ LastRun(runs').params.end_date = ap.end_date
                  /\ LastRun(runs').params.division =
                       (IF level = "national" THEN ap.division ELSE selectedDiv)
                  /\ LastRun(runs').params.district =
                       (IF level = "district" THEN toDbDist(selectedDist) ELSE Absent) ]_vars

\* After a filter change at division level: the run for the old filter is
\* superseded and still in flight, the run for the new filter is live.
C8_Witness ==
  /\ level = "division" /\ selectedDiv = "Dhaka"
  /\ Len(runs) = 2
  /\ runs[1].cancelled /\ runs[1].level = "division" /\ runs[1].params.isp = Absent
  /\ runs[1].params.division = "Dhaka"
  /\ ~runs[2].cancelled /\ runs[2].level = "division" /\ runs[2].params.isp = "ISP1"
  /\ runs[2].params.division = "Dhaka"
  /\ activeParams.isp = "ISP1"

\* ------------------------------------------------------------ C9
\* C9: in every state reachable by drillToDiv, drillToDist, drillUp and
\* resetDrill, level 'national' implies no selection, 'division' implies a
\* division and no district, 'district' implies both.
C9_LevelImpliesSelection ==
  /\ level = "national" => (selectedDiv = Null /\ selectedDist = Null)
  /\ level = "division" => (selectedDiv # Null /\ selectedDist = Null)
  /\ level = "district" => (selectedDiv # Null /\ selectedDist # Null)

\* ------------------------------------------------------------ C10
C10_FailStep ==
  \A i \in LiveRuns :
    FetchFail(i) =>
       /\ error' # Null /\ ~loading'
       /\ level' = level /\ selectedDiv' = selectedDiv /\ selectedDist' = selectedDist

\* A step that puts a new run in flight.
C10_Recover == Len(runs') > Len(runs) => (error' = Null /\ loading')

\* C10: when a fetch of the current run fails, error becomes non-null and
\* loading false while the drill position stays; the next run a drill action
\* or filter change starts resets error to null before it fetches, so no
\* live run is ever in flight with an error showing.
C10_ErrorScopedRecoverable ==
  /\ [][C10_FailStep /\ C10_Recover]_vars
  /\ [](LiveRuns # {} => (error = Null /\ loading))

\* An error is showing at district level with the drill position intact.
C10_Witness ==
  /\ error = ErrMsg /\ ~loading
  /\ level = "district" /\ selectedDiv = "Dhaka" /\ selectedDist = "Jessore"

\* ------------------------------------------------------------ C2
\* ------------------------------------------------------------ C11
C11_Data == <<divisionData, districtData, popMarkers, ispData>>

\* What the last response of run r writes, all of it in one step.
C11_WrittenTogether(r) ==
  /\ ~r.cancelled /\ r.pending = 1 /\ error' = error
  /\ CASE r.level = "national" ->
            /\ divisionData' = {Rows(REG_R2_DIV_VIOLATIONS, r.params)}
            /\ UNCHANGED <<districtData, popMarkers, ispData>>
       [] r.level = "division" ->
            /\ districtData' = {Rows(REG_R2_DIST_VIOLATIONS, r.params)}
            /\ popMarkers'   = {Rows(REG_R2_POP_MARKERS, r.params)}
            /\ ispData'      = {Rows(REG_R2_ISP_BY_AREA, r.params)}
            /\ UNCHANGED divisionData
       [] OTHER ->
            /\ popMarkers'   = {Rows(REG_R2_POP_MARKERS, r.params)}
            /\ ispData'      = {Rows(REG_R2_ISP_BY_AREA, r.params)}
            /\ UNCHANGED <<divisionData, districtData>>

\* C11: the fetches of one run are joined before any state is written: a
\* response that is not the run's last one writes no data, the last one
\* writes districtData, popMarkers and ispData together at division level
\* and popMarkers and ispData together at district level, and a response
\* that fails (error is set) writes none of the run's results.
C11_JoinedBeforeWrite ==
  [][\A i \in 1..Len(runs) :
        ResponseStep(i) =>
          /\ runs' # RemoveAt(runs, i) => UNCHANGED C11_Data
          /\ error' # error => UNCHANGED C11_Data
          /\ C11_Data' # C11_Data => C11_WrittenTogether(runs[i])]_vars

\* Two of the three division fetches are back and nothing is written yet.
C11_Witness ==
  /\ level = "division"
  /\ \E i \in LiveRuns : runs[i].level = "division" /\ runs[i].pending = 1
  /\ districtData = {} /\ popMarkers = {} /\ ispData = {}

\* ------------------------------------------------------------ C2
\* C2: when (cardId, params) changes while a fetch is in flight, the response
\* of the superseded load is cancelled or ignored: it never overwrites rows,
\* columns, loading or error.
C2_SupersededLoadSilent ==
  [][ \A i \in 1..Len(loads) :
        ( /\ loads' = RemoveAt(loads, i)
          /\ <<loads[i].cardId, JSONstringify(loads[i].params)>>
               # <<mcCardId, JSONstringify(mcParams)>> ) =>
           UNCHANGED <<rows, columns, mcLoading, mcError>> ]_vars

\* ------------------------------------------------------------ C4
\* C4: two parameter objects with the same key-value pairs in a different
\* insertion order derive the same cache key, so a result stored under one is
\* returned for the other as a cache hit without a network fetch.
C4_OrderInsensitiveHit ==
  [][ \A c \in CardIds \ {Null} : \A p, q \in ParamChoices :
        ( /\ Entries(p) = Entries(q)
          /\ readCache(toKey(c, q)) = "hit"
          /\ SetProps(c, p) ) =>
           /\ toKey(c, p) = toKey(c, q)
           /\ loads' = loads
           /\ rows' = CacheEntry(toKey(c, q)).data ]_vars

\* ------------------------------------------------------------ C12
\* C12: after the component using the hook is unmounted, no continuation of
\* a fetch that was pending at unmount time writes rows, columns, loading or
\* error.
C12_UnmountedSilent ==
  [][ ~mcMounted => UNCHANGED <<rows, columns, mcLoading, mcError>> ]_vars

\* ------------------------------------------------------------ C19
\* The entries of a key that are no older than the TTL / older than the TTL.
FreshEntries(key) == { e \in cache : e.key = key /\ now - e.ts <= CACHE_TTL_MS }
StaleEntries(key) == { e \in cache : e.key = key /\ now - e.ts > CACHE_TTL_MS }

\* A non-busting load for (c, p): the load of a render with new arguments.
C19_Load ==
  \A c \in CardIds \ {Null} : \A p \in ParamChoices :
    SetProps(c, p) =>
      IF FreshEntries(toKey(c, p)) # {}
      THEN /\ loads' = loads
           /\ cache' = cache
           /\ ~mcLoading'
           /\ \E e \in FreshEntries(toKey(c, p)) : rows' = e.data /\ columns' = e.data
      ELSE /\ Len(loads') = Len(loads) + 1
           /\ LastRun(loads').key = toKey(c, p)
           /\ LastRun(loads').asOf = now
           /\ cache' = cache \ StaleEntries(toKey(c, p))
           /\ rows' = rows /\ columns' = columns

\* The fetch of load i succeeds: the key has one entry, stamped now, holding
\* what the fetch returned.
C19_Store ==
  \A i \in 1..Len(loads) :
    LoadOk(i) =>
      /\ { e \in cache' : e.key = loads[i].key } =
            { [key |-> loads[i].key, ts |-> now,
               data |-> {Result(loads[i].cardId, loads[i].params, loads[i].asOf)}] }
      /\ { e \in cache' : e.key # loads[i].key } = { e \in cache : e.key # loads[i].key }

C20_Issue ==
  (refetch /\ mcCardId # Null) =>
     /\ Len(loads') = Len(loads) + 1
     /\ LastRun(loads').key = toKey(mcCardId, mcParams)
     /\ LastRun(loads').asOf = now
     /\ cache' = cache

\* The fetch of a refetch() succeeds: the entry of the key now holds the new
\* result under the current time, and a non-busting load reads exactly that.
C20_Overwrite ==
  \A i \in 1..Len(loads) :
    (loads[i].bust /\ LoadOk(i)) =>
       LET new == {Result(loads[i].cardId, loads[i].params, loads[i].asOf)} IN
       /\ \A e \in cache' : e.key = loads[i].key => (e.data = new /\ e.ts = now)
       /\ \E e \in cache' : e.key = loads[i].key
       /\ rows' = new

\* A non-busting load that finds the entry of a key refreshed by refetch()
\* returns the refreshed result (or one requested later still).
C20_NextLoad ==
  \A c \in CardIds \ {Null} : \A p \in ParamChoices :
    (SetProps(c, p) /\ loads' = loads) =>
       \A r \in refreshed : r.key = toKey(c, p) =>
          \A d \in rows' : d.asOf >= r.asOf

\* C20: refetch() always issues a network fetch, also when a non-expired
\* entry exists for the key; when that fetch succeeds the entry of the key is
\* overwritten with the new result and a new timestamp, so the next
\* non-busting load returns the refreshed result.
C20_RefetchBypassesAndRewrites ==
  [][C20_Issue /\ C20_Overwrite /\ C20_NextLoad]_vars

\* ------------------------------------------------------------ C21
\* C21: refetch() clears the cache entry of the hook's key: from the call on,
\* no non-busting load returns a value that was cached before the call, also
\* when the fetch of the refetch() fails.
C21_RefetchEvictsEntry ==
  [][\A c \in CardIds \ {Null} : \A p \in ParamChoices :
        (SetProps(c, p) /\ loads' = loads) =>
           \A r \in refetched :
              r.key = toKey(c, p) => CacheEntry(toKey(c, p)).ts >= r.at]_vars

\* ------------------------------------------------------------ C27
\* The most recent load delivers rows in this step: a cache hit, or the fetch
\* issued last, for the arguments of the last render, succeeds.
C27_Delivered ==
  \/ \E c \in CardIds \ {Null} : \E p \in ParamChoices :
        SetProps(c, p) /\ loads' = loads
  \/ /\ loads # << >>
     /\ LastRun(loads).key = toKey(mcCardId, mcParams)
     /\ LoadOk(Len(loads))

\* C27: when the most recent load has delivered rows, from a cache hit or
\* from a successful fetch, and loading is false, error is null.
C27_NoErrorOnDeliveredRows ==
  [][(C27_Delivered /\ ~mcLoading') => mcError' = Null]_vars

\* ------------------------------------------------------------ C28
C28_Failed ==
  \A i \in 1..Len(loads) :
    LoadFail(i) =>
      /\ cache' = cache /\ rows' = rows /\ columns' = columns
      /\ mcError' # Null /\ ~mcLoading'

C28_NoCard ==
  ((SetProps(Null, << >>) \/ (refetch /\ mcCardId = Null)) =>
      /\ loads' = loads /\ cache' = cache /\ ~mcLoading')

\* C28: a failed fetch creates or modifies no cache entry and leaves rows and
\* columns as they are; it sets error to a message and loading to false.  A
\* load with no cardId issues no fetch, touches no cache entry and sets
\* loading to false.
C28_FailureLeavesDataAlone == [][C28_Failed /\ C28_NoCard]_vars

\* A fetch failed after rows had been delivered and cached: the rows and the
\* entry are still there, next to the error.
C28_Witness ==
  /\ mcError = McErrMsg /\ ~mcLoading /\ loads = << >>
  /\ rows # {} /\ cache # {}

\* ------------------------------------------------------------ C22
C22_InNeitherColumn(n) ==
  ~\E e \in DIST_DB_TO_GEO : e[1] = n \/ e[2] = n

\* C22: the district name mapping is exact-match, total and bidirectional: a
\* name in neither column of the table comes back unchanged from toGeoDist
\* and from toDbDist; no two DB names map to the same GeoJSON name;
\* toDbDist(toGeoDist(n)) = n for every backend name n and
\* toGeoDist(toDbDist(g)) = g for every GeoJSON name g.
C22_DistrictNamesBidirectional ==
  /\ \A i \in 1..Len(distTrail) :
        C22_InNeitherColumn(distTrail[i].arg) => distTrail[i].out = distTrail[i].arg
  /\ \A e1, e2 \in DIST_DB_TO_GEO : e1[2] = e2[2] => e1[1] = e2[1]
  /\ ( /\ Len(distTrail) = 2 /\ distIn \in DbDistricts
       /\ distTrail[1].fn = "toGeoDist" /\ distTrail[2].fn = "toDbDist" )
       => distTrail[2].out = distIn
  /\ ( /\ Len(distTrail) = 2 /\ distIn \in GeoDistricts
       /\ distTrail[1].fn = "toDbDist" /\ distTrail[2].fn = "toGeoDist" )
       => distTrail[2].out = distIn

\* A backend name that the boundary file spells differently went to the
\* boundary file's spelling and back.
C22_Witness ==
  /\ distIn = "Jashore" /\ Len(distTrail) = 2
  /\ distTrail[1].fn = "toGeoDist" /\ distTrail[1].out = "Jessore"
  /\ distTrail[2].fn = "toDbDist" /\ distTrail[2].out = "Jashore"

\* ------------------------------------------------------------ C23
\* The palettes from the least to the most alarming colour.
C23_Order(fn) ==
  CASE fn \in {"violation", "district"} -> <<"#e5e7eb", "#22c55e", "#eab308", "#dc2626">>
    [] fn = "violation5" -> <<"#e5e7eb", "#fca5a5", "#f87171", "#ef4444", "#b91c1c">>
    [] OTHER             -> <<"#fff7ed", "#fed7aa", "#fb923c", "#ea580c", "#9a3412">>

\* The place of a colour in its palette; 0 for a colour that is not in it.
C23_Rank(fn, c) ==
  IF \E i \in 1..Len(C23_Order(fn)) : C23_Order(fn)[i] = c
  THEN CHOOSE i \in 1..Len(C23_Order(fn)) : C23_Order(fn)[i] = c
  ELSE 0

\* C23: the colour functions are monotonic: for a fixed max >= 1 and totals
\* 0 <= v1 <= v2 <= max the colour of v2 is equally or more alarming than
\* the colour of v1 (gray < green < yellow < red, and the five-tier palettes
\* of the earlier map), and a total of 0 gets the neutral colour.
C23_ColourScaleMonotonic ==
  \A fn \in {"violation", "district", "violation5", "district5"} :
     /\ \A a \in 1..2 :
           /\ C23_Rank(fn, mapFills[a][fn]) >= 1
           /\ mapTotals[a] = 0 => C23_Rank(fn, mapFills[a][fn]) = 1
     /\ \A a, b \in 1..2 :
           mapTotals[a] <= mapTotals[b] =>
              C23_Rank(fn, mapFills[a][fn]) <= C23_Rank(fn, mapFills[b][fn])

\* Totals on either side of the thresholds: 3 of 10 is green, 7 of 10 red.
C23_Witness ==
  /\ mapMax = 10 /\ mapTotals = <<3, 7>>
  /\ mapFills[1].violation = "#22c55e" /\ mapFills[2].violation = "#dc2626"
  /\ mapFills[1].violation5 = "#f87171" /\ mapFills[2].violation5 = "#ef4444"

\* ------------------------------------------------------------ C24
\* C24: after any finite sequence of drill actions and filter changes, a
\* repeated drillToDiv or drillToDist with the value already selected
\* included, loading eventually becomes false: if from some point on the
\* only steps are responses to fetches, loading ends up false.
C24_LoadingEventuallyEnds ==
  <>[][\E i \in 1..Len(runs) : ResponseStep(i)]_vars => <>[](~loading)

\* ------------------------------------------------------------ C25
\* C25: at level 'division' with loading false, popMarkers and ispData are
\* each empty or the result of a fetch scoped to the selected division with
\* no district parameter, also when the fetches issued after drillUp fail.
C25_DivisionScoped(d) ==
  d.params.division = toDbDiv(selectedDiv) /\ d.params.district = Absent

C25_NoDistrictLeftovers ==
  (level = "division" /\ ~loading) =>
     \A d \in popMarkers \cup ispData : C25_DivisionScoped(d)

\* ------------------------------------------------------------ C26
\* C26: under every interleaving of drill actions with fetch completions,
\* whenever level is 'national' the districtData, popMarkers and ispData are
\* empty.
C26_NationalHasNoDrillData ==
  level = "national" => (districtData = {} /\ popMarkers = {} /\ ispData = {})

\* National level reached again with its table loaded while the responses of
\* a division or district run, cancelled by the step up, are still to come.
C26_Witness ==
  /\ level = "national" /\ ~loading /\ divisionData # {}
  /\ \E i \in 1..Len(runs) : runs[i].cancelled /\ runs[i].level # "national"

\* ------------------------------------------------------------ C29
\* C29: in every AuthProvider state a non-null role implies a non-null user,
\* also when logout() or 'mb-session-expired' happens while the
\* permission-groups fetch of a login or session restore is in flight.
C29_RoleImpliesUser == role # Null => user # NoUser

\* ------------------------------------------------------------ C30
\* C30: in the drill-down tab, for a regional officer with an assigned
\* division selectedDiv is never another division, and whenever the drill is
\* at national level with loading false it gets drilled into the assigned
\* division, also after drillUp or resetDrill.
C30_Officer == role = "regional_officer" /\ user.division # ""

C30_OnlyAssigned ==
  C30_Officer => selectedDiv \in {Null, toGeoDiv(user.division)}

C30_OfficerKeptInDivision ==
  /\ []C30_OnlyAssigned
  /\ (C30_Officer /\ level = "national" /\ ~loading)
       ~> (level # "national" /\ selectedDiv = toGeoDiv(user.division))

\* ------------------------------------------------------------ C13
\* C13: every operation of FilterProvider that changes division (setDivision,
\* resetFilters, the role-lock effect) leaves district empty afterwards.
C13_DivisionChangeClearsDistrict ==
  [][ division' # division => district' = "" ]_vars

\* ------------------------------------------------------------ C14
\* C14: in every reachable FilterProvider state, the initial one read from
\* the URL included, district is non-empty only if division is non-empty.
C14_DistrictNeedsDivision == district # "" => division # ""

\* ------------------------------------------------------------ C15
\* C15: activeParams contains the key division, district or isp exactly when
\* the filter field is non-empty, with its value; start_date / end_date
\* exactly when the resolved date range has a non-null start / end; and never
\* a key whose value is empty or null.
C15_ActiveParamsProjection ==
  LET ap == activeParamsMemo
      rd == resolvedDates(preset, maxDate, startDate, endDate)
  IN /\ get(ap, "division") = Or(division, Null)
     /\ get(ap, "district") = Or(district, Null)
     /\ get(ap, "isp") = Or(isp, Null)
     /\ get(ap, "start_date") = rd.start
     /\ get(ap, "end_date") = rd.end
     /\ Keys(ap) \subseteq ALL_KEYS
     /\ Len(ap) = Cardinality(Keys(ap))
     /\ \A e \in Entries(ap) : e[2] \notin {Null, ""}

\* A relative preset resolved against the loaded maxDate, a division without
\* a district.
C15_Witness ==
  /\ preset = "7d" /\ maxDate # Null /\ division = "Dhaka" /\ district = "" /\ isp = ""
  /\ activeParamsMemo = << <<"division", "Dhaka">>,
                           <<"start_date", "2024-01-24T00:00:00.000Z">>,
                           <<"end_date", "2024-01-31T00:00:00.000Z">> >>

\* ------------------------------------------------------------ C16
\* C16: whenever a regional_officer with an assigned division (an isp_user
\* with an assigned isp) becomes the current user, the filter's division
\* (isp) eventually equals the assigned value, in whatever order the user and
\* the role reach FilterProvider.
C16_LockEventuallyForced ==
  /\ (fpMounted /\ divisionLocked) ~> (~divisionLocked \/ division = user.division)
  /\ (fpMounted /\ ispLocked) ~> (~ispLocked \/ isp = user.isp)

\* ------------------------------------------------------------ C17
\* A step of the filter bar: one of the setters as the FilterBar offers it.
FilterBarStep ==
  \/ \E v \in DIVISIONS \cup {Null} : FilterBar_setDivision(v)
  \/ \E v \in IspOpts \cup {Null} : FilterBar_setIsp(v)
  \/ FilterBar_resetFilters

\* C17: once division has been forced to the assigned value and
\* divisionLocked holds (likewise isp and ispLocked), no operation reachable
\* from the filter bar changes that field away from the assigned value.
C17_LockedFieldStays ==
  [][ FilterBarStep =>
        /\ (divisionLocked /\ division = user.division) => division' = user.division
        /\ (ispLocked /\ isp = user.isp) => isp' = user.isp ]_vars

\* ------------------------------------------------------------ C18
\* C18: the selection written to the URL query string (empty fields left out)
\* decodes, in a provider initialised from that URL, to the same selection.
C18_UrlRoundTrip ==
  fpMounted =>
    FromUrl(searchParams) =
      [division |-> division, district |-> district, isp |-> isp,
       preset |-> preset, startDate |-> startDate, endDate |-> endDate]

\* A custom range together with a division and a district, all in the URL.
C18_Witness ==
  /\ fpMounted /\ preset = "custom" /\ startDate = FromDate /\ endDate = ToDate
  /\ division = "Khulna" /\ district = "Jashore" /\ isp = ""
  /\ searchParams = << <<"div", "Khulna">>, <<"dist", "Jashore">>, <<"range", "custom">>,
                       <<"from", FromDate>>, <<"to", ToDate>> >>

====
